---- MODULE Spec2Model ----
(***************************************************************************)
(* Model of examples/graph_prediction/ogbg-mol-hiv_disjoint.py: a linear   *)
(* script that loads the ogbg-molhiv dataset, splits it, builds an ECC     *)
(* network, trains it batch by batch and evaluates it on the test split.   *)
(*                                                                         *)
(* Graphs are identified by their dataset index.  Calls into TensorFlow    *)
(* are opaque and any of them may raise.  The loss returned by the n-th    *)
(* train_step call is the uninterpreted value n, and a sum of such losses  *)
(* is the bag of its terms, so that a printed training loss shows which    *)
(* calls it averages.  The predictions of the network and the test loss    *)
(* are drawn from small sets; the test loss and the score are pairs        *)
(* <<num, den>> of integers.                                               *)
(***************************************************************************)
EXTENDS Integers, Sequences, FiniteSets, Bags

\* ---------------------------------------------------------------- bounds
epochs     == 3   \* number of training epochs (10 in the script)
batch_size == 2   \* batch size (32 in the script)
NTrain     == 5   \* graphs in the train split
NValid     == 1   \* graphs in the validation split
NTest      == 3   \* graphs in the test split
MaxLoss    == 2   \* the test loss is one of 0..MaxLoss
MaxPred    == 2   \* predictions are the levels 0..MaxPred (MaxPred is 1.0)

Losses     == 0 .. MaxLoss
PredLevels == 0 .. MaxPred

\* ---------------------------------------------------------------- state
VARIABLES
    pc,             \* position of the script
    labels,         \* target of every graph (only the test targets vary:
                    \* the others are read by train_step alone)
    loader_tr,      \* DisjointLoader over the train split
    loader_te,      \* DisjointLoader over the test split
    weights,        \* version of model.trainable_variables
    current_batch,  \* batches processed since the last printed loss
    model_loss,     \* running loss: the bag of the losses summed while
                    \* fitting, the test loss <<num, den>> at the end
    out,            \* the lines printed so far
    y_true,         \* list of target arrays, stacked after the test loop
    y_pred,         \* list of prediction arrays, stacked after the test loop
    train_calls,    \* history: the number of completed train_step calls
    fed_tr,         \* history: the graphs passed to train_step
    fed_te,         \* history: the graphs passed to the model for testing
    test_log,       \* history: one record per prediction on a test batch
    fault           \* history: where an exception was raised, or NoFault

vars == <<pc, labels, loader_tr, loader_te, weights, current_batch,
          model_loss, out, y_true, y_pred, train_calls, fed_tr, fed_te,
          test_log, fault>>

NoFault  == [phase |-> "none"]
NoLoader == [data |-> {}, batch_size |-> 1, epochs |-> 0,
             epochs_done |-> 0, remaining |-> {}]

\* ---------------------------------------------------------------- helpers
Min(a, b) == IF a < b THEN a ELSE b

CeilDiv(a, b) == (a + b - 1) \div b

RECURSIVE Flatten(_)
Flatten(l) == IF l = <<>> THEN <<>> ELSE l[1] \o Flatten(Tail(l))

\* np.vstack of a list of arrays: the rows of the arrays, in list order
vstack(l) == Flatten(l)

Range(s) == {s[i] : i \in DOMAIN s}

\* ---------------------------------------------------------------- split
idx_tr == 1 .. NTrain
idx_va == (NTrain + 1) .. (NTrain + NValid)
idx_te == (NTrain + NValid + 1) .. (NTrain + NValid + NTest)

Graphs == idx_tr \cup idx_va \cup idx_te

dataset_tr == idx_tr
dataset_va == idx_va
dataset_va_as_te == idx_va
dataset_te == idx_te

\* ---------------------------------------------------------------- loader
DisjointLoader(data, bs, ep) ==
    [data |-> data, batch_size |-> bs, epochs |-> ep,
     epochs_done |-> 0, remaining |-> {}]

steps_per_epoch(l) == CeilDiv(Cardinality(l.data), l.batch_size)

\* the generator has another batch to yield
HasNext(l) ==
    \/ l.remaining # {}
    \/ l.epochs_done < l.epochs /\ l.data # {}

\* graphs not yet yielded in the epoch the next batch belongs to
Pool(l) == IF l.remaining # {} THEN l.remaining ELSE l.data

\* the batches the (shuffling) generator may yield next: any
\* min(batch_size, rest) distinct graphs of the pool, in any order
NextBatches(l) ==
    LET k == Min(l.batch_size, Cardinality(Pool(l)))
    IN  {b \in [1 .. k -> Pool(l)] :
            \A i, j \in 1 .. k : i # j => b[i] # b[j]}

Advance(l, b) ==
    [l EXCEPT !.epochs_done = IF l.remaining # {} THEN @ ELSE @ + 1,
              !.remaining   = Pool(l) \ Range(b)]

\* number of batches the loader has yielded so far
Yielded(l) ==
    IF l.epochs_done = 0 THEN 0
    ELSE (l.epochs_done - 1) * steps_per_epoch(l)
         + CeilDiv(Cardinality(l.data) - Cardinality(l.remaining),
                   l.batch_size)

loader_tr_1 == DisjointLoader(dataset_tr, batch_size, 1)
loader_tr_0 == DisjointLoader(dataset_tr, batch_size, epochs)
loader_te_0 == DisjointLoader(dataset_te, batch_size, 1)

\* ---------------------------------------------------------------- faults
\* The script has no try/except: an exception raised by any call ends it.
Handled(phase)   == phase
Unhandled(phase) == "failed"

\* an exception raised in `phase` after the lines `o` were printed
Raise(phase, o) ==
    /\ pc' = Unhandled(phase)
    /\ fault' = [phase |-> phase, out |-> o, weights |-> weights]

\* the script is one straight line of sections
PhaseAfterEvalFirst(phase) ==
    CASE phase = "load"  -> "build"
      [] phase = "build" -> "test"
      [] phase = "test"  -> "fit"
      [] phase = "fit"   -> "done"
PhaseAfter(phase) ==
    CASE phase = "load"  -> "build"
      [] phase = "build" -> "fit"
      [] phase = "fit"   -> "test"
      [] phase = "test"  -> "done"

\* ---------------------------------------------------------------- printing
\* '{:.Nf}'.format(x) for x = r[1] / r[2] >= 0, as an integer number of
\* units of 10^-N; an exact tie goes to the even neighbour
Pow10(n) == IF n = 2 THEN 100 ELSE 10000

Fmt(r, n) ==
    LET q   == (r[1] * Pow10(n)) \div r[2]
        rem == (r[1] * Pow10(n)) % r[2]
    IN  IF 2 * rem < r[2] THEN q
        ELSE IF 2 * rem > r[2] THEN q + 1
        ELSE IF q % 2 = 0 THEN q ELSE q + 1

LossLine(ml, steps) == [kind |-> "Loss", value |-> <<ml, steps>>]

DoneLineSwapped(loss, score) ==
    [kind |-> "Done", loss |-> Fmt(score, 4), rocauc |-> Fmt(loss, 2)]
DoneLine(loss, score) ==
    [kind |-> "Done", loss |-> Fmt(loss, 4), rocauc |-> Fmt(score, 2)]

IsLoss(line) == line.kind = "Loss"
IsDone(line) == line.kind = "Done"
LossLines == SelectSeq(out, IsLoss)
DoneLines == SelectSeq(out, IsDone)

\* ---------------------------------------------------------------- metric
\* Area under the ROC curve of scores yp against binary targets yt: the
\* fraction of (positive, negative) pairs ranked correctly, ties counting
\* one half.  Defined only when both classes are present.
BothClasses(yt) == 1 \in Range(yt) /\ 0 \in Range(yt)

rocauc(yt, yp) ==
    LET pos  == {i \in DOMAIN yt : yt[i] = 1}
        neg  == {i \in DOMAIN yt : yt[i] = 0}
        wins == Cardinality({pr \in pos \X neg : yp[pr[1]] > yp[pr[2]]})
        ties == Cardinality({pr \in pos \X neg : yp[pr[1]] = yp[pr[2]]})
    IN  <<2 * wins + ties, 2 * Cardinality(pos) * Cardinality(neg)>>

\* target array of a batch
Target(b) == [i \in DOMAIN b |-> labels[b[i]]]

\* ---------------------------------------------------------------- Init
Init ==
    /\ pc = "load"
    /\ \E t \in [idx_te -> {0, 1}] :
         labels = [g \in Graphs |-> IF g \in idx_te THEN t[g] ELSE 0]
    /\ loader_tr = NoLoader
    /\ loader_te = NoLoader
    /\ weights = 0
    /\ current_batch = 0
    /\ model_loss = EmptyBag
    /\ out = <<>>
    /\ y_true = <<>>
    /\ y_pred = <<>>
    /\ train_calls = 0
    /\ fed_tr = {}
    /\ fed_te = {}
    /\ test_log = <<>>
    /\ fault = NoFault

\* ---------------------------------------------------------------- actions
\* LOAD DATA: dataset, split, the two loaders
LoadData ==
    /\ pc = "load"
    /\ pc' = PhaseAfter("load")
    /\ loader_tr' = loader_tr_0
    /\ loader_te' = loader_te_0
    /\ UNCHANGED <<labels, weights, current_batch, model_loss, out,
                   y_true, y_pred, train_calls, fed_tr, fed_te, test_log,
                   fault>>

LoadDataFails ==
    /\ pc = "load"
    /\ Raise("load", out)
    /\ UNCHANGED <<labels, loader_tr, loader_te, weights, current_batch,
                   model_loss, out, y_true, y_pred, train_calls, fed_tr,
                   fed_te, test_log>>

\* BUILD MODEL, then the head of FIT MODEL up to the loop
BuildModel ==
    /\ pc = "build"
    /\ pc' = PhaseAfter("build")
    /\ weights' = 0
    /\ out' = Append(out, [kind |-> "Fitting model"])
    /\ current_batch' = 0
    /\ model_loss' = EmptyBag
    /\ UNCHANGED <<labels, loader_tr, loader_te, y_true, y_pred,
                   train_calls, fed_tr, fed_te, test_log, fault>>

BuildModelFails ==
    /\ pc = "build"
    /\ Raise("build", out)
    /\ UNCHANGED <<labels, loader_tr, loader_te, weights, current_batch,
                   model_loss, out, y_true, y_pred, train_calls, fed_tr,
                   fed_te, test_log>>

\* opt.apply_gradients inside train_step: one update of the weights
train_step(w) == w + 1

\* model(inputs, training=False): the weights after a prediction
predict_updates(w) == w + 1
predict(w) == w

EpochEndsLate(cb, l) == cb > steps_per_epoch(l)
EpochEnds(cb, l) == cb = steps_per_epoch(l)

KeepLoss(ml) == ml
ResetLoss(ml) == EmptyBag

\* one iteration of `for batch in loader_tr`
TrainIter ==
    /\ pc = "fit"
    /\ HasNext(loader_tr)
    /\ \E batch \in NextBatches(loader_tr) :
         LET outs == train_calls + 1
             ml   == model_loss (+) SetToBag({outs})
             cb   == current_batch + 1
         IN  /\ loader_tr' = Advance(loader_tr, batch)
             /\ weights' = train_step(weights)
             /\ train_calls' = outs
             /\ fed_tr' = fed_tr \cup Range(batch)
             /\ IF EpochEnds(cb, loader_tr)
                THEN /\ out' = Append(out,
                                 LossLine(ml, steps_per_epoch(loader_tr)))
                     /\ model_loss' = ResetLoss(ml)
                     /\ current_batch' = 0
                ELSE /\ out' = out
                     /\ model_loss' = ml
                     /\ current_batch' = cb
    /\ UNCHANGED <<pc, labels, loader_te, y_true, y_pred, fed_te, test_log,
                   fault>>

\* the loader yields a batch and train_step raises on it
TrainStepFails ==
    /\ pc = "fit"
    /\ HasNext(loader_tr)
    /\ \E batch \in NextBatches(loader_tr) :
         /\ loader_tr' = Advance(loader_tr, batch)
         /\ fed_tr' = fed_tr \cup Range(batch)
    /\ Raise("fit", out)
    /\ UNCHANGED <<labels, loader_te, weights, current_batch, model_loss,
                   out, y_true, y_pred, train_calls, fed_te, test_log>>

\* the training loader is exhausted; head of EVALUATE MODEL up to the loop
StartTesting ==
    /\ pc = "fit"
    /\ ~HasNext(loader_tr)
    /\ pc' = PhaseAfter("fit")
    /\ out' = Append(out, [kind |-> "Testing model"])
    /\ y_true' = <<>>
    /\ y_pred' = <<>>
    /\ UNCHANGED <<labels, loader_tr, loader_te, weights, current_batch,
                   model_loss, train_calls, fed_tr, fed_te, test_log, fault>>

StartTestingFails ==
    /\ pc = "fit"
    /\ ~HasNext(loader_tr)
    /\ out' = Append(out, [kind |-> "Testing model"])
    /\ Raise("fit", Append(out, [kind |-> "Testing model"]))
    /\ UNCHANGED <<labels, loader_tr, loader_te, weights, current_batch,
                   model_loss, y_true, y_pred, train_calls, fed_tr, fed_te,
                   test_log>>

y_true_prepend(l, t) == <<t>> \o l
y_true_append(l, t) == Append(l, t)

y_pred_prepend(l, p) == <<p>> \o l
y_pred_append(l, p) == Append(l, p)

\* one iteration of `for batch in loader_te`
TestIter ==
    /\ pc = "test"
    /\ HasNext(loader_te)
    /\ \E batch \in NextBatches(loader_te) :
       \E p \in [DOMAIN batch -> PredLevels] :
         /\ loader_te' = Advance(loader_te, batch)
         /\ weights' = predict(weights)
         /\ y_true' = y_true_append(y_true, Target(batch))
         /\ y_pred' = y_pred_append(y_pred, p)
         /\ fed_te' = fed_te \cup Range(batch)
         /\ test_log' = Append(test_log,
                           [batch |-> batch, w |-> weights, p |-> p])
    /\ UNCHANGED <<pc, labels, loader_tr, current_batch, model_loss, out,
                   train_calls, fed_tr, fault>>

\* the loader yields a test batch and the prediction raises on it
TestIterFails ==
    /\ pc = "test"
    /\ HasNext(loader_te)
    /\ \E batch \in NextBatches(loader_te) :
         /\ loader_te' = Advance(loader_te, batch)
         /\ fed_te' = fed_te \cup Range(batch)
    /\ Raise("test", out)
    /\ UNCHANGED <<labels, loader_tr, weights, current_batch, model_loss,
                   out, y_true, y_pred, train_calls, fed_tr, test_log>>

\* the test loader is exhausted: stack, loss, metric, final print
Evaluate ==
    /\ pc = "test"
    /\ ~HasNext(loader_te)
    /\ LET yt == vstack(y_true)
           yp == vstack(y_pred)
       IN  /\ BothClasses(yt)
           /\ y_true' = yt
           /\ y_pred' = yp
           /\ \E loss \in Losses :
                /\ model_loss' = <<loss, 1>>
                /\ out' = Append(out, DoneLine(<<loss, 1>>, rocauc(yt, yp)))
    /\ pc' = PhaseAfter("test")
    /\ UNCHANGED <<labels, loader_tr, loader_te, weights, current_batch,
                   train_calls, fed_tr, fed_te, test_log, fault>>

\* np.vstack, loss_fn or evaluator.eval raises (the metric does so whenever
\* the targets hold a single class)
EvaluateFails ==
    /\ pc = "test"
    /\ ~HasNext(loader_te)
    /\ Raise("test", out)
    /\ UNCHANGED <<labels, loader_tr, loader_te, weights, current_batch,
                   model_loss, out, y_true, y_pred, train_calls, fed_tr,
                   fed_te, test_log>>

Next ==
    \/ LoadData
    \/ LoadDataFails
    \/ BuildModel
    \/ BuildModelFails
    \/ TrainIter
    \/ TrainStepFails
    \/ StartTesting
    \/ StartTestingFails
    \/ TestIter
    \/ TestIterFails
    \/ Evaluate
    \/ EvaluateFails

Spec == Init /\ [][Next]_vars

\* The run in which no library call raises, on a test split that holds both
\* classes (as the benchmark's does).
InitLive == Init /\ {labels[g] : g \in idx_te} = {0, 1}

NextLive ==
    \/ LoadData
    \/ BuildModel
    \/ TrainIter
    \/ StartTesting
    \/ TestIter
    \/ Evaluate

LiveSpec == InitLive /\ [][NextLive]_vars /\ WF_vars(NextLive)

\* ---------------------------------------------------------------- claims
Loaded == loader_tr # NoLoader

StepsTr == steps_per_epoch(loader_tr)
StepsTe == steps_per_epoch(loader_te)

\* C1: the training loss is printed once per epoch: after n processed
\* training batches exactly n \div steps_per_epoch 'Loss:' lines have been
\* printed (so the k-th follows the (k * steps_per_epoch)-th batch and no
\* other batch prints one), and a complete run has printed `epochs` of them.
C1_LossLinePerEpoch ==
    /\ Loaded => Len(LossLines) = train_calls \div StepsTr
    /\ ~Loaded => LossLines = <<>>
    /\ pc = "done" => Len(LossLines) = epochs

C1_Witness ==
    /\ pc = "done"
    /\ train_calls = epochs * StepsTr
    /\ Len(LossLines) = epochs

\* C2: the phases run in order: a test batch is fed to the model only after
\* the last training batch has been processed, and the 'Done.' line is
\* printed once, as the last line, after every test batch has been consumed
\* and after all the 'Loss:' lines.
C2_PhaseOrder ==
    /\ fed_te # {} => /\ ~HasNext(loader_tr)
                      /\ train_calls = epochs * StepsTr
    /\ Len(DoneLines) <= 1
    /\ \A i \in DOMAIN out :
         IsDone(out[i]) => /\ i = Len(out)
                           /\ pc = "done"
                           /\ ~HasNext(loader_te)
                           /\ Len(test_log) = StepsTe
                           /\ Len(LossLines) = epochs
    /\ pc = "done" => Len(DoneLines) = 1

C2_Witness ==
    /\ pc = "done"
    /\ Len(DoneLines) = 1
    /\ Len(LossLines) = epochs
    /\ fed_te = idx_te

\* C3: the ROC-AUC of the final line, printed with two decimals, lies in
\* [0.00, 1.00].
C3_RocAucInUnitInterval ==
    \A i \in DOMAIN out :
        IsDone(out[i]) => out[i].rocauc >= 0 /\ out[i].rocauc <= Pow10(2)

C3_Witness ==
    /\ pc = "done"
    /\ out[Len(out)].rocauc > 0
    /\ out[Len(out)].rocauc < Pow10(2)

\* C4: once a call has raised, the script has stopped: nothing has been
\* printed since, the weights are as they were, and there is no 'Done.' line.
C4_FaultStops ==
    fault # NoFault => /\ pc = "failed"
                       /\ out = fault.out
                       /\ weights = fault.weights
                       /\ DoneLines = <<>>
                       /\ (fault.phase \in {"load", "build"}
                              => LossLines = <<>> /\ fed_tr = {})
                       /\ (fault.phase \in {"load", "build", "fit"}
                              => fed_te = {})

C4_Witness ==
    /\ pc = "failed"
    /\ fault.phase = "fit"
    /\ Len(LossLines) = 1
    /\ current_batch > 0

\* C5: when no call raises the script terminates: it reaches the final print
\* after epochs * steps_per_epoch training batches and one pass over the
\* test loader.
C5_Terminates ==
    <>(/\ pc = "done"
       /\ Len(DoneLines) = 1
       /\ train_calls = epochs * StepsTr
       /\ Yielded(loader_tr) = epochs * StepsTr
       /\ Len(test_log) = StepsTe
       /\ Yielded(loader_te) = StepsTe)

C5_Witness ==
    /\ pc = "done"
    /\ ~HasNext(loader_tr)
    /\ ~HasNext(loader_te)
    /\ Yielded(loader_tr) = epochs * StepsTr
    /\ Yielded(loader_te) = StepsTe

\* the sum of the losses of the k-th epoch
EpochLosses(k) == SetToBag(((k - 1) * StepsTr + 1) .. (k * StepsTr))

\* the sum of the losses returned since the last reset
PendingLosses ==
    SetToBag((train_calls - current_batch + 1) .. train_calls)

\* C6: each printed training loss is the mean of that epoch's batch losses:
\* while fitting 0 <= current_batch < steps_per_epoch and model_loss is the
\* sum of the losses of the current_batch batches processed since the last
\* reset; the k-th printed value is the sum of the k-th epoch's losses over
\* steps_per_epoch.
C6_LossIsEpochMean ==
    /\ pc = "fit" => /\ current_batch >= 0
                     /\ current_batch < StepsTr
                     /\ current_batch = train_calls % StepsTr
                     /\ model_loss = PendingLosses
    /\ Loaded => \A k \in 1 .. Len(LossLines) :
                    LossLines[k].value = <<EpochLosses(k), StepsTr>>

C6_Witness ==
    /\ pc = "fit"
    /\ Len(LossLines) = 2
    /\ LossLines[1].value # LossLines[2].value
    /\ current_batch > 0
    /\ model_loss # EmptyBag

\* the graphs of the test batches, in the order they were predicted
TestOrder == Flatten([i \in DOMAIN test_log |-> test_log[i].batch])

C8_TargetsAlignedWithPredictions ==
    /\ pc = "test" =>
         /\ Len(y_true) = Len(test_log)
         /\ Len(y_pred) = Len(test_log)
         /\ \A i \in DOMAIN test_log :
              /\ y_true[i] = Target(test_log[i].batch)
              /\ y_pred[i] = test_log[i].p
              /\ Len(y_true[i]) = Len(y_pred[i])
    /\ pc = "done" =>
         /\ Len(y_true) = Len(y_pred)
         /\ Len(y_true) = Len(TestOrder)
         /\ \A j \in DOMAIN TestOrder :
              /\ y_true[j] = labels[TestOrder[j]]
              /\ y_pred[j] =
                   Flatten([i \in DOMAIN test_log |-> test_log[i].p])[j]

C8_Witness ==
    /\ pc = "test"
    /\ Len(test_log) = 2
    /\ y_true[1] # y_true[2]
    /\ y_pred[1] # y_pred[2]

\* C9: the weights change only while training: they have been updated once
\* per completed train_step, and every test batch was predicted with the
\* weights the training loop ended with, which evaluation leaves as they are.
C9_WeightsChangeOnlyInTraining ==
    /\ weights = train_calls
    /\ \A i \in DOMAIN test_log :
         /\ test_log[i].w = weights
         /\ test_log[i].w = epochs * StepsTr

C9_Witness ==
    /\ pc = "done"
    /\ Len(test_log) > 1
    /\ weights = epochs * StepsTr
    /\ weights > 1

\* C10: the splits are kept apart: train_step sees only graphs of the train
\* split, test predictions only graphs of the test split, and no graph of the
\* validation split is ever passed to the model.
C10_SplitsKeptApart ==
    /\ fed_tr \subseteq idx_tr
    /\ fed_te \subseteq idx_te
    /\ (fed_tr \cup fed_te) \cap idx_va = {}
    /\ fed_tr \cap fed_te = {}

C10_Witness ==
    /\ pc = "done"
    /\ fed_tr = idx_tr
    /\ fed_te = idx_te
    /\ idx_va # {}

====
